---- MODULE Spec2Model ----
(***************************************************************************)
(* Model of harbor.py: the vendor API client (HarborAPI), the three-table  *)
(* SQLite store (harbor_invoices, harbor_categories, harbor_invoice_items) *)
(* with the connection's implicit transaction, the ingestion functions     *)
(* save_invoice / save_categories / save_line_items, the reporter          *)
(* check_database and the entry point main.                                *)
(*                                                                         *)
(* Money is counted in cents, so REAL columns hold integers here.          *)
(* A Document row keeps the columns document_id, bill_to_name and          *)
(* invoice_total (one representative of the text columns and of the six    *)
(* float-coerced totals, which the code treats alike); a Line Item row     *)
(* keeps the core columns and the five enrichment columns.  The JSON blob  *)
(* columns and the AUTOINCREMENT ids are left out, so a table is the bag   *)
(* of its rows.  Foreign keys are declared but SQLite does not enforce     *)
(* them (no PRAGMA foreign_keys), so they put no guard on any statement.   *)
(***************************************************************************)
EXTENDS Integers, Sequences, FiniteSets, Bags, TLC

\* ------------------------------------------------------------------ bounds
MaxCats == 1
MaxIds == 1

\* ------------------------------------------------------- program constants
Top == 100

\* ------------------------------------------------------------ JSON values
\* Text values are strings; None is Python's None / SQL NULL, Absent a key
\* that the dictionary does not have.
None == "None"
Absent == "<absent>"

\* Numeric values: a JSON number, a string spelling a number, a string that
\* spells none, null, or an absent key.
Num(n) == [t |-> "num", v |-> n]
NumStr(n) == [t |-> "numstr", v |-> n]
BadStr == [t |-> "text", v |-> 0]
NullV == [t |-> "null", v |-> 0]
AbsentV == [t |-> "absent", v |-> 0]

Ok(x) == [exc |-> "ok", val |-> x]
Raise(e, x) == [exc |-> e, val |-> x]

\* dict.get(key, default) on a text / numeric field
Get(x, default) == IF x = Absent THEN default ELSE x
GetV(x, default) == IF x.t = "absent" THEN default ELSE x

\* ------------------------------------------------------------- the inputs
DocIds == {"d1", "d2"}
MainDocumentId == "d1"
ItemIds == {"X1", "X2"}

Headers ==
    {[DocumentId |-> "d1", BillToName |-> "Acme", InvoiceTotal |-> Num(4250)],
     [DocumentId |-> "d1", BillToName |-> "Acme", InvoiceTotal |-> NumStr(1000)],
     [DocumentId |-> "d2", BillToName |-> "Acme", InvoiceTotal |-> Num(4250)]}
    \cup {[DocumentId |-> Absent, BillToName |-> "Acme", InvoiceTotal |-> Num(4250)],
          [DocumentId |-> "d1", BillToName |-> "Acme", InvoiceTotal |-> AbsentV],
          [DocumentId |-> "d1", BillToName |-> "Acme", InvoiceTotal |-> BadStr]}

\* A category payload entry: <<name, data>>; data is a dictionary (dict =
\* TRUE) with optional keys, or JSON null.
CatFull == [dict |-> TRUE, CategoryID |-> "G1", Count |-> Num(2), Cost |-> Num(1000)]
CatEmpty == [dict |-> TRUE, CategoryID |-> Absent, Count |-> AbsentV, Cost |-> AbsentV]
CatEntries == {<<"Grocery", CatFull>>, <<"Dairy", CatEmpty>>}

\* sequences over S of length at most n
RECURSIVE SeqsUpTo(_, _)
SeqsUpTo(S, n) ==
    IF n = 0 THEN {<<>>}
    ELSE LET shorter == SeqsUpTo(S, n - 1)
         IN  shorter \cup {Append(s, x) : s \in {q \in shorter : Len(q) = n - 1}, x \in S}

NoDup(s) == \A i, j \in 1..Len(s) : i # j => s[i][1] # s[j][1]

\* the categories response: a name-keyed dictionary (kind "dict", keys are
\* distinct, in document order) or, from a misbehaving endpoint, a list
CategoryPayloads ==
    {[kind |-> "dict", entries |-> e] :
        e \in {s \in SeqsUpTo(CatEntries, MaxCats) : NoDup(s)}}
    \cup {[kind |-> "list", entries |-> <<>>]}

\* a line item; ItemId is Absent when it has no 'Item' or no 'ItemId' in it
LineItemRecords ==
    {[ItemId |-> "X1", Quantity |-> Num(2), UnitPrice |-> Num(500)],
     [ItemId |-> Absent, Quantity |-> Num(3), UnitPrice |-> AbsentV]}
\* the line-items response: no line, or one
LineItemPayloads == {[Value |-> <<>>]} \cup {[Value |-> <<l>>] : l \in LineItemRecords}

UomFull == [SRP |-> Num(1200), MarginPct |-> Num(40), PackageDescription |-> "CASE"]
UomEmpty == [SRP |-> AbsentV, MarginPct |-> AbsentV, PackageDescription |-> Absent]
\* an item detail; hasUOMs = FALSE when the record has no 'UOMs' key
ItemRecords ==
    {[ItemId |-> "X1", ItemDescription |-> "Widget", BrandName |-> "Brand",
      hasUOMs |-> TRUE, UOMs |-> <<UomFull>>],
     [ItemId |-> "X1", ItemDescription |-> "Widget", BrandName |-> Absent,
      hasUOMs |-> FALSE, UOMs |-> <<>>],
     [ItemId |-> "X1", ItemDescription |-> "Widget", BrandName |-> "Brand",
      hasUOMs |-> TRUE, UOMs |-> <<>>]}
\* the items response: no record, or one
EmptyItems == [Value |-> <<>>]
ItemPayloads == {EmptyItems} \cup {[Value |-> <<i>>] : i \in ItemRecords}

\* The bundle main assembles for save_invoice.  It always has the keys
\* 'categories', 'items' and raw_data['line_items'], so the two tests in
\* save_invoice ('categories' in invoice_data, 'line_items' in raw_data)
\* succeed and both save_categories and save_line_items are called.
BuildInvoice(h, c, l, i) ==
    [document_id |-> MainDocumentId,
     categories |-> c,
     items |-> i,
     raw_data |-> [header |-> h, line_items |-> l]]

\* An invalid header aborts save_invoice before the other payloads are
\* read, so one bundle per invalid header is enough.
ValidHeaders == {h \in Headers : h.DocumentId # Absent /\ h.BillToName # Absent
                                 /\ h.InvoiceTotal.t \in {"num", "numstr"}}
\* main asks for item details only when a line item names an item
HasItemId(l) == \E k \in 1..Len(l.Value) : l.Value[k].ItemId # Absent
Invoices ==
    {BuildInvoice(h, c, l, i) :
        h \in ValidHeaders, c \in CategoryPayloads,
        l \in {x \in LineItemPayloads : HasItemId(x)}, i \in ItemPayloads}
    \cup {BuildInvoice(h, c, l, EmptyItems) :
        h \in ValidHeaders, c \in CategoryPayloads,
        l \in {x \in LineItemPayloads : ~HasItemId(x)}}
    \cup {BuildInvoice(h, [kind |-> "dict", entries |-> <<>>], [Value |-> <<>>], EmptyItems) :
        h \in Headers \ ValidHeaders}

\* ------------------------------------------------------------- the store
\* The database file: whether the three tables exist, and their rows.
NoTables ==
    [exists |-> FALSE, invoices |-> EmptyBag, categories |-> EmptyBag, items |-> EmptyBag]
EmptyTables ==
    [exists |-> TRUE, invoices |-> EmptyBag, categories |-> EmptyBag, items |-> EmptyBag]

\* the rows of a table that are in the set keep; one more row in a table
Only(rows, keep) == [r \in DOMAIN rows \cap keep |-> rows[r]]
Insert(rows, row) == rows (+) SetToBag({row})

\* A connection on the file: S.db is what is committed, S.view what the
\* connection sees, S.txn whether its implicit transaction is open (sqlite3
\* opens one before INSERT / REPLACE / DELETE and keeps it until commit;
\* closing the connection discards it).
Commit(S) == [S EXCEPT !.db = S.view, !.txn = FALSE]

\* DELETE FROM <child table> WHERE invoice_id = ?
ClearRowsKeep(rows, d) == rows
ClearRows(rows, d) == Only(rows, {r \in DOMAIN rows : r.invoice_id # d})

\* INSERT OR REPLACE INTO harbor_invoices: the row with the same primary
\* key is deleted and the new row is inserted
InsertOrReplace(rows, row) ==
    Insert(Only(rows, {r \in DOMAIN rows : r.document_id # row.document_id}), row)

\* float(x)
Float(x) ==
    CASE x.t = "num" -> Ok(Num(x.v))
      [] x.t = "numstr" -> Ok(Num(x.v))
      [] x.t = "text" -> Raise("ValueError", NullV)
      [] OTHER -> Raise("TypeError", NullV)

\* The parameter tuple of the INSERT OR REPLACE, evaluated left to right
\* before the statement runs: header[...] raises KeyError on an absent key,
\* float(...) raises on a value that is no number.
NoDocRow == [document_id |-> None, bill_to_name |-> None, invoice_total |-> NullV]
header_row_lenient(h) ==
    Ok([document_id |-> Get(h.DocumentId, None),
        bill_to_name |-> Get(h.BillToName, None),
        invoice_total |-> IF Float(h.InvoiceTotal).exc = "ok"
                          THEN Float(h.InvoiceTotal).val ELSE Num(0)])
header_row(h) ==
    IF h.DocumentId = Absent \/ h.BillToName = Absent \/ h.InvoiceTotal.t = "absent"
    THEN Raise("KeyError", NoDocRow)
    ELSE IF Float(h.InvoiceTotal).exc # "ok"
    THEN Raise(Float(h.InvoiceTotal).exc, NoDocRow)
    ELSE Ok([document_id |-> h.DocumentId,
             bill_to_name |-> h.BillToName,
             invoice_total |-> Float(h.InvoiceTotal).val])

\* ------------------------------------------------------- save_categories
category_row(d, entry) ==
    [invoice_id |-> d,
     category_name |-> entry[1],
     category_id |-> Get(entry[2].CategoryID, None),
     item_count |-> GetV(entry[2].Count, Num(0)),
     total_cost |-> GetV(entry[2].Cost, Num(0))]

\* the insert loop from entry k on; category_data.get raises AttributeError
\* when the entry's value is no dictionary, and the rows inserted before it
\* stay in the open transaction
RECURSIVE insert_categories(_, _, _, _)
insert_categories(rows, d, entries, k) ==
    IF k > Len(entries) THEN Ok(rows)
    ELSE IF ~entries[k][2].dict THEN Raise("AttributeError", rows)
    ELSE insert_categories(Insert(rows, category_row(d, entries[k])), d, entries, k + 1)

save_categories(S, d, categories_data) ==
    LET S1 == [S EXCEPT !.view.categories = ClearRows(@, d), !.txn = TRUE]
    IN  IF categories_data.kind # "dict" THEN Raise("AttributeError", S1)
        ELSE LET r == insert_categories(S1.view.categories, d, categories_data.entries, 1)
                 S2 == [S1 EXCEPT !.view.categories = r.val]
             IN  IF r.exc # "ok" THEN Raise(r.exc, S2) ELSE Ok(Commit(S2))

\* ------------------------------------------------------- save_line_items
\* item_details[id]: the dictionary comprehension keeps the last record of
\* each ItemId; <<>> when there is none
item_detail_of(items, id) ==
    LET hits == {k \in 1..Len(items) : items[k].ItemId = id}
    IN  IF hits = {} THEN <<>>
        ELSE <<items[CHOOSE k \in hits : \A j \in hits : j <= k]>>

\* uom = item_detail.get('UOMs', [{}])[0] if item_detail else {}
first_uom(detail) ==
    IF detail = <<>> THEN Ok(UomEmpty)
    ELSE IF ~detail[1].hasUOMs THEN Ok(UomEmpty)
    ELSE IF detail[1].UOMs = <<>> THEN Raise("IndexError", UomEmpty)
    ELSE Ok(detail[1].UOMs[1])

NoItemRow ==
    [invoice_id |-> None, item_id |-> None, item_description |-> None,
     brand_name |-> None, unit_price |-> NullV, quantity |-> NullV, srp |-> NullV,
     margin_pct |-> NullV, package_description |-> None, line_total |-> NullV]

line_item_row(d, line_item, items) ==
    LET item_id == Get(line_item.ItemId, None)
        detail == item_detail_of(items, item_id)
        uom == first_uom(detail)
        quantity == GetV(line_item.Quantity, Num(0))
        unit_price == GetV(line_item.UnitPrice, Num(0))
    IN  IF uom.exc # "ok" THEN Raise(uom.exc, NoItemRow)
        ELSE IF quantity.t # "num" \/ unit_price.t # "num" THEN Raise("TypeError", NoItemRow)
        ELSE Ok([invoice_id |-> d,
                 item_id |-> item_id,
                 item_description |->
                     IF detail = <<>> THEN None ELSE Get(detail[1].ItemDescription, None),
                 brand_name |->
                     IF detail = <<>> THEN None ELSE Get(detail[1].BrandName, None),
                 unit_price |-> GetV(line_item.UnitPrice, NullV),
                 quantity |-> quantity,
                 srp |-> GetV(uom.val.SRP, NullV),
                 margin_pct |-> GetV(uom.val.MarginPct, NullV),
                 package_description |-> Get(uom.val.PackageDescription, None),
                 line_total |-> Num(quantity.v * unit_price.v)])

RECURSIVE insert_line_items(_, _, _, _, _)
insert_line_items(rows, d, lines, items, k) ==
    IF k > Len(lines) THEN Ok(rows)
    ELSE LET r == line_item_row(d, lines[k], items)
         IN  IF r.exc # "ok" THEN Raise(r.exc, rows)
             ELSE insert_line_items(Insert(rows, r.val), d, lines, items, k + 1)

save_line_items(S, d, line_items_data, items_data) ==
    LET S1 == [S EXCEPT !.view.items = ClearRows(@, d), !.txn = TRUE]
    IN  IF \E k \in 1..Len(items_data.Value) : items_data.Value[k].ItemId = Absent
        THEN Raise("KeyError", S1)
        ELSE LET r == insert_line_items(S1.view.items, d, line_items_data.Value,
                                        items_data.Value, 1)
                 S2 == [S1 EXCEPT !.view.items = r.val]
             IN  IF r.exc # "ok" THEN Raise(r.exc, S2) ELSE Ok(Commit(S2))

\* ---------------------------------------------------------- save_invoice
\* the invoice reference handed to save_categories and save_line_items
invoice_key_top(invoice_data) == invoice_data.document_id
invoice_key(invoice_data) == invoice_data.raw_data.header.DocumentId

Outcome(e, stage, S) == [exc |-> e, stage |-> stage, val |-> S]

\* The except clause logs and re-raises: it neither rolls back nor commits,
\* so what the connection holds when the exception leaves is what the
\* statements and the commits inside save_categories / save_line_items left.
save_invoice(S, invoice_data) ==
    LET p == header_row(invoice_data.raw_data.header)
        S1 == [S EXCEPT !.view.invoices = InsertOrReplace(@, p.val), !.txn = TRUE]
        c == save_categories(S1, invoice_key(invoice_data), invoice_data.categories)
        l == save_line_items(c.val, invoice_key(invoice_data),
                             invoice_data.raw_data.line_items, invoice_data.items)
    IN  IF p.exc # "ok" THEN Outcome(p.exc, "header", S)
        ELSE IF ~S.view.exists THEN Outcome("OperationalError", "insert", S)
        ELSE IF c.exc # "ok" THEN Outcome(c.exc, "save_categories", c.val)
        ELSE IF l.exc # "ok" THEN Outcome(l.exc, "save_line_items", l.val)
        ELSE Outcome("ok", "done", Commit(l.val))

\* ------------------------------------------- drop_tables, setup_database
drop_tables(S) == Commit([S EXCEPT !.view = NoTables])

\* a new connection on the file; CREATE TABLE IF NOT EXISTS x 3, commit
setup_database(db) ==
    LET t == IF db.exists THEN db ELSE EmptyTables
    IN  [db |-> t, view |-> t, txn |-> FALSE]

\* -------------------------------------------------------- check_database
\* Its own connection reads the committed rows.  A missing table raises
\* sqlite3.Error, which is caught and printed ("reported"); formatting a
\* NULL with :.2f raises TypeError, which leaves through the finally clause.
IsNull(x) == x.t = "null"
check_database_purge(db) ==
    [exc |-> "ok", val |-> [db EXCEPT !.items = EmptyBag]]
check_database(db) ==
    IF ~db.exists THEN [exc |-> "reported", val |-> db]
    ELSE IF \/ \E r \in DOMAIN db.invoices : IsNull(r.invoice_total)
            \/ \E r \in DOMAIN db.categories : IsNull(r.total_cost)
            \/ \E r \in DOMAIN db.items :
                  IsNull(r.unit_price) \/ IsNull(r.srp) \/ IsNull(r.line_total)
    THEN [exc |-> "TypeError", val |-> db]
    ELSE [exc |-> "ok", val |-> db]

\* ----------------------------------------------------- HarborAPI.get_items
\* response: what the endpoint answers if it is asked (a payload, or a
\* status that raise_for_status turns into HTTPError)
ItemsRequest(item_ids) == [endpoint |-> "items", Filter |-> item_ids, Top |-> Top]
get_items_eager(item_ids, response) ==
    [sent |-> <<ItemsRequest(item_ids)>>, exc |-> response.exc, val |-> response.val]
get_items(item_ids, response) ==
    IF item_ids = <<>> THEN [sent |-> <<>>, exc |-> "ok", val |-> EmptyItems]
    ELSE [sent |-> <<ItemsRequest(item_ids)>>, exc |-> response.exc, val |-> response.val]

\* -------------------------------------------------------------------- main
\* item_ids: the ItemId of every line item that has a truthy one
RECURSIVE extract_item_ids(_, _)
extract_item_ids(lines, k) ==
    IF k > Len(lines) THEN <<>>
    ELSE IF Get(lines[k].ItemId, None) # None
    THEN <<lines[k].ItemId>> \o extract_item_ids(lines, k + 1)
    ELSE extract_item_ids(lines, k + 1)

\* items_data = api.get_items(item_ids) if item_ids else {'Value': []}
main_items(item_ids, response) ==
    IF item_ids # <<>> THEN get_items(item_ids, response)
    ELSE [sent |-> <<>>, exc |-> "ok", val |-> EmptyItems]

ItemResponses == {Ok(i) : i \in ItemPayloads} \cup {Raise("HTTPError", EmptyItems)}
Request(endpoint) == [endpoint |-> endpoint, Filter |-> <<>>, Top |-> 0]


\* ------------------------------------------------------------------ state
VARIABLES
    db,          \* the committed contents of clover.db
    conn,        \* the caller's connection: open, txn, view
    pc,          \* the caller: "idle", "raised" while an exception propagates,
                 \* or where main() is; "done" after a run of main()
    locals,      \* the payloads main has fetched; the last get_items call
    wire,        \* the requests sent to the vendor API by the current run / call
    last,        \* the last operation and how it ended
    latestDoc,   \* history: per document id, the Document row mapped from its
                 \* latest successful ingestion since the last schema reset
    latestRows,  \* history: per document id, the Category and Line Item rows
                 \* mapped from its latest ingestion, kept as long as every
                 \* ingestion since the last schema reset has succeeded
    clean,       \* history: no save_invoice has raised since the last schema reset
    runStart     \* history: the Document rows committed when the run of main()
                 \* began, and the number of drop_tables calls it has made

vars == <<db, conn, pc, locals, wire, last, latestDoc, latestRows, clean, runStart>>

Closed == [open |-> FALSE, txn |-> FALSE, view |-> NoTables]
Store == [db |-> db, view |-> conn.view, txn |-> conn.txn]
Opened(S) == [open |-> TRUE, txn |-> S.txn, view |-> S.view]

NoLocals ==
    [header_data |-> [DocumentId |-> Absent, BillToName |-> Absent, InvoiceTotal |-> AbsentV],
     categories_data |-> [kind |-> "dict", entries |-> <<>>],
     line_items_data |-> [Value |-> <<>>],
     item_ids |-> <<>>,
     items_data |-> EmptyItems,
     error |-> "ok"]
NoRun == [rows |-> EmptyBag, drops |-> 0]
NoDocs == [d \in DocIds |-> EmptyBag]
NoRows == [d \in DocIds |-> [cats |-> EmptyBag, items |-> EmptyBag]]

\* last: the operation, the exception that left it ("ok" for none) and, for
\* save_invoice, the stage that raised, whether the header payload was
\* complete, and whether INSERT OR REPLACE found a row to replace
Did(op, exc, stage, hdr) ==
    [op |-> op, exc |-> exc, stage |-> stage, hdr |-> hdr, replaced |-> FALSE]

Init ==
    /\ db = NoTables
    /\ conn = Closed
    /\ pc = "idle"
    /\ locals = NoLocals
    /\ wire = <<>>
    /\ last = Did("none", "ok", "", "")
    /\ latestDoc = NoDocs
    /\ latestRows = NoRows
    /\ clean = TRUE
    /\ runStart = NoRun

\* the rows a successful ingestion of invoice_data maps to
MappedDoc(invoice_data) == SetToBag({header_row(invoice_data.raw_data.header).val})
MappedRows(invoice_data) ==
    LET d == invoice_data.raw_data.header.DocumentId
    IN  [cats |-> insert_categories(EmptyBag, d, invoice_data.categories.entries, 1).val,
         items |-> insert_line_items(EmptyBag, d, invoice_data.raw_data.line_items.Value,
                                     invoice_data.items.Value, 1).val]

HeaderComplete(h) ==
    /\ h.DocumentId # Absent
    /\ h.BillToName # Absent
    /\ h.InvoiceTotal.t \in {"num", "numstr"}

\* the history kept about one call of save_invoice
Record(invoice_data, r) ==
    LET d == invoice_data.raw_data.header.DocumentId
    IN  /\ last' = [op |-> "save_invoice", exc |-> r.exc, stage |-> r.stage,
                     hdr |-> IF HeaderComplete(invoice_data.raw_data.header)
                             THEN "complete" ELSE "defective",
                     replaced |-> /\ r.stage \notin {"header", "insert"}
                                  /\ \E row \in DOMAIN conn.view.invoices :
                                        row.document_id = d]
        /\ clean' = (clean /\ r.exc = "ok")
        /\ latestDoc' = IF r.exc = "ok"
                        THEN [latestDoc EXCEPT ![d] = MappedDoc(invoice_data)]
                        ELSE latestDoc
        /\ latestRows' = IF clean /\ r.exc = "ok"
                         THEN [latestRows EXCEPT ![d] = MappedRows(invoice_data)]
                         ELSE IF clean' THEN latestRows ELSE NoRows

\* ------------------------------------------------ calls made by a caller
\* A caller works as main does: it holds one connection, and an exception
\* that leaves a call ends with conn.close() in a finally clause.

\* conn = setup_database(): the connection held before is dropped
SetupDatabase ==
    /\ pc = "idle"
    /\ LET S == setup_database(db)
       IN  /\ db' = S.db
           /\ conn' = Opened(S)
    /\ last' = Did("setup_database", "ok", "", "")
    /\ UNCHANGED <<pc, locals, wire, latestDoc, latestRows, clean, runStart>>

DropTables ==
    /\ pc = "idle"
    /\ conn.open
    /\ LET S == drop_tables(Store)
       IN  /\ db' = S.db
           /\ conn' = Opened(S)
    /\ last' = Did("drop_tables", "ok", "", "")
    /\ latestDoc' = NoDocs
    /\ latestRows' = NoRows
    /\ clean' = TRUE
    /\ UNCHANGED <<pc, locals, wire, runStart>>

SaveInvoice ==
    /\ pc = "idle"
    /\ conn.open
    /\ \E invoice_data \in Invoices :
          LET r == save_invoice(Store, invoice_data)
          IN  /\ db' = r.val.db
              /\ conn' = Opened(r.val)
              /\ Record(invoice_data, r)
              /\ pc' = IF r.exc = "ok" THEN "idle" ELSE "raised"
    /\ UNCHANGED <<locals, wire, runStart>>

CheckDatabase ==
    /\ pc = "idle"
    /\ LET r == check_database(db)
       IN  /\ db' = r.val
           /\ last' = Did("check_database", r.exc, "", "")
           /\ pc' = IF r.exc = "TypeError" THEN "raised" ELSE "idle"
    /\ UNCHANGED <<conn, locals, wire, latestDoc, latestRows, clean, runStart>>

\* conn.close(): an open transaction is rolled back
Close ==
    /\ pc \in {"idle", "raised"}
    /\ conn.open \/ pc = "raised"
    /\ conn' = Closed
    /\ pc' = "idle"
    /\ last' = Did("close", "ok", "", "")
    /\ UNCHANGED <<db, locals, wire, latestDoc, latestRows, clean, runStart>>

Next ==
    \/ SetupDatabase
    \/ DropTables
    \/ SaveInvoice
    \/ CheckDatabase
    \/ Close

Spec == Init /\ [][Next]_vars

\* ---------------------------------- the API client and runs of main()
Between == pc \in {"idle", "done"}

GetItems ==
    /\ Between
    /\ \E item_ids \in SeqsUpTo(ItemIds, MaxIds), response \in ItemResponses :
          LET r == get_items(item_ids, response)
          IN  /\ wire' = r.sent
              /\ locals' = [NoLocals EXCEPT !.item_ids = item_ids, !.items_data = r.val]
              /\ last' = Did("get_items", r.exc, "", "")
    /\ pc' = "idle"
    /\ runStart' = NoRun
    /\ UNCHANGED <<db, conn, latestDoc, latestRows, clean>>

\* The script runs in a process of its own, so it starts with no
\* connection.  conn = sqlite3.connect('clover.db'); drop_tables(conn)
MainDropSkip ==
    /\ Between
    /\ conn' = Opened([db |-> db, view |-> db, txn |-> FALSE])
    /\ pc' = "setup"
    /\ locals' = NoLocals
    /\ wire' = <<>>
    /\ runStart' = [rows |-> db.invoices, drops |-> 0]
    /\ last' = Did("drop_tables", "ok", "", "")
    /\ UNCHANGED <<db, latestDoc, latestRows, clean>>
MainDrop ==
    /\ Between
    /\ LET S == drop_tables([db |-> db, view |-> db, txn |-> FALSE])
       IN  /\ db' = S.db
           /\ conn' = Opened(S)
    /\ pc' = "setup"
    /\ locals' = NoLocals
    /\ wire' = <<>>
    /\ runStart' = [rows |-> db.invoices, drops |-> 1]
    /\ last' = Did("drop_tables", "ok", "", "")
    /\ latestDoc' = NoDocs
    /\ latestRows' = NoRows
    /\ clean' = TRUE

\* conn = setup_database(); api.authenticate(token)
MainSetup ==
    /\ pc = "setup"
    /\ LET S == setup_database(db)
       IN  /\ db' = S.db
           /\ conn' = Opened(S)
    /\ pc' = "header"
    /\ last' = Did("setup_database", "ok", "", "")
    /\ UNCHANGED <<locals, wire, latestDoc, latestRows, clean, runStart>>

\* a fetch that raise_for_status fails leaves through the except clause
Fails(op) ==
    /\ pc' = "finally"
    /\ locals' = [locals EXCEPT !.error = "HTTPError"]
    /\ last' = Did(op, "HTTPError", "", "")

MainGetHeader ==
    /\ pc = "header"
    /\ wire' = Append(wire, Request("GetPostedDocumentHeader"))
    /\ \/ Fails("get_document_header")
       \/ \E h \in Headers :
            /\ locals' = [locals EXCEPT !.header_data = h]
            /\ pc' = "categories"
            /\ last' = Did("get_document_header", "ok", "", "")
    /\ UNCHANGED <<db, conn, latestDoc, latestRows, clean, runStart>>

MainGetCategories ==
    /\ pc = "categories"
    /\ wire' = Append(wire, Request("GetCategoriesForPostedDocument"))
    /\ \/ Fails("get_categories")
       \/ \E c \in CategoryPayloads :
            /\ locals' = [locals EXCEPT !.categories_data = c]
            /\ pc' = "lines"
            /\ last' = Did("get_categories", "ok", "", "")
    /\ UNCHANGED <<db, conn, latestDoc, latestRows, clean, runStart>>

MainGetLineItems ==
    /\ pc = "lines"
    /\ wire' = Append(wire, Request("GetPostedDocumentLines"))
    /\ \/ Fails("get_line_items")
       \/ \E l \in LineItemPayloads :
            /\ locals' = [locals EXCEPT !.line_items_data = l,
                                        !.item_ids = extract_item_ids(l.Value, 1)]
            /\ pc' = "items"
            /\ last' = Did("get_line_items", "ok", "", "")
    /\ UNCHANGED <<db, conn, latestDoc, latestRows, clean, runStart>>

MainGetItems ==
    /\ pc = "items"
    /\ \E response \in ItemResponses :
          LET r == main_items(locals.item_ids, response)
          IN  /\ wire' = wire \o r.sent
              /\ locals' = [locals EXCEPT !.items_data = r.val, !.error = r.exc]
              /\ pc' = IF r.exc = "ok" THEN "save" ELSE "finally"
              /\ last' = Did("get_items", r.exc, "", "")
    /\ UNCHANGED <<db, conn, latestDoc, latestRows, clean, runStart>>

MainSave ==
    /\ pc = "save"
    /\ LET invoice_data == BuildInvoice(locals.header_data, locals.categories_data,
                                        locals.line_items_data, locals.items_data)
           r == save_invoice(Store, invoice_data)
       IN  /\ db' = r.val.db
           /\ conn' = Opened(r.val)
           /\ Record(invoice_data, r)
           /\ locals' = [locals EXCEPT !.error = r.exc]
           /\ pc' = IF r.exc = "ok" THEN "check" ELSE "finally"
    /\ UNCHANGED <<wire, runStart>>

MainCheck ==
    /\ pc = "check"
    /\ LET r == check_database(db)
       IN  /\ db' = r.val
           /\ locals' = [locals EXCEPT !.error = IF r.exc = "TypeError" THEN r.exc ELSE "ok"]
           /\ last' = Did("check_database", r.exc, "", "")
    /\ pc' = "finally"
    /\ UNCHANGED <<conn, wire, latestDoc, latestRows, clean, runStart>>

\* except: print the error; finally: conn.close()
MainFinally ==
    /\ pc = "finally"
    /\ conn' = Closed
    /\ pc' = "done"
    /\ locals' = NoLocals
    /\ last' = Did("main", locals.error, "", "")
    /\ UNCHANGED <<db, wire, latestDoc, latestRows, clean, runStart>>

RunNext ==
    \/ GetItems
    \/ MainDrop
    \/ MainSetup
    \/ MainGetHeader
    \/ MainGetCategories
    \/ MainGetLineItems
    \/ MainGetItems
    \/ MainSave
    \/ MainCheck
    \/ MainFinally

RunSpec == Init /\ [][RunNext]_vars

\* ================================================================ claims
RowsFor(rows, d) == Only(rows, {r \in DOMAIN rows : r.invoice_id = d})
DocFor(rows, d) == Only(rows, {r \in DOMAIN rows : r.document_id = d})

\* C1: ingestion is atomic: when save_invoice raises after the Document row
\* has been written (in save_categories or in save_line_items), the three
\* committed tables hold exactly the rows they held before the call.
C1_AtomicIngestion ==
    [][(/\ last'.op = "save_invoice"
        /\ last'.stage \in {"save_categories", "save_line_items"})
       => db' = db]_vars

\* C2: as long as every ingestion since the last reset has succeeded, the
\* Category rows and the Line Item rows of every document id are exactly the
\* rows mapped from the most recent ingestion of that id: no stale row, no
\* row twice.
C2_LatestRowsOnly ==
    clean =>
        \A d \in DocIds :
            /\ RowsFor(db.categories, d) = latestRows[d].cats
            /\ RowsFor(db.items, d) = latestRows[d].items

\* a document was ingested again, after successful ingestions only, and rows
\* of both documents are stored
C2_Witness ==
    /\ clean
    /\ last.op = "save_invoice"
    /\ last.exc = "ok"
    /\ last.replaced
    /\ \A d \in DocIds : RowsFor(db.categories, d) # EmptyBag
    /\ \E d \in DocIds : RowsFor(db.items, d) # EmptyBag

\* C3: in every state the documents table holds at most one row per document
\* id, and for each id successfully ingested since the last reset exactly the
\* row mapped from its latest successful ingestion.
C3_OneRowLatestValues ==
    /\ \A r \in DOMAIN db.invoices :
          /\ db.invoices[r] = 1
          /\ \A q \in DOMAIN db.invoices : q.document_id = r.document_id => q = r
    /\ \A d \in DocIds :
          latestDoc[d] # EmptyBag => DocFor(db.invoices, d) = latestDoc[d]

\* quantity * unit_price on stored values: NULL when either is NULL
SqlProduct(a, b) == IF a.t = "null" \/ b.t = "null" THEN NullV ELSE Num(a.v * b.v)

\* C4: every stored Line Item row has line_total = quantity * unit_price,
\* computed from the quantity and unit_price stored in that row.
C4_LineTotalIsProduct ==
    \A r \in DOMAIN db.items : r.line_total = SqlProduct(r.quantity, r.unit_price)

\* C5: line-item enrichment never raises: save_line_items does not leave with
\* an exception because a detail record is missing or its UOM list is absent
\* or empty.
C5_EnrichmentNeverRaises ==
    ~(last.op = "save_invoice" /\ last.stage = "save_line_items" /\ last.exc = "IndexError")

\* C6: when a required header field is absent or a total is no number,
\* save_invoice raises and writes nothing: the committed tables and the
\* connection's transaction are as they were.
C6_DefectiveHeaderWritesNothing ==
    [][(last'.op = "save_invoice" /\ last'.hdr = "defective")
       => (last'.exc # "ok" /\ db' = db /\ conn' = conn)]_vars

\* save_invoice has raised on a defective header while rows of document d1
\* are stored
C6_Witness ==
    /\ last.op = "save_invoice"
    /\ last.hdr = "defective"
    /\ last.exc \in {"KeyError", "ValueError"}
    /\ DocFor(db.invoices, "d1") # EmptyBag
    /\ RowsFor(db.categories, "d1") # EmptyBag

SentTo(endpoint) == \E k \in 1..Len(wire) : wire[k].endpoint = endpoint

\* C7: get_items called with no identifier returns the empty result and sends
\* no request; in a run of main in which no line item yields an identifier,
\* no request is sent to the item endpoint.
C7_NoIdsNoRequest ==
    /\ (pc = "idle" /\ last.op = "get_items" /\ locals.item_ids = <<>>)
          => (wire = <<>> /\ locals.items_data = EmptyItems /\ last.exc = "ok")
    /\ (pc \notin {"idle", "done"} /\ locals.item_ids = <<>>) => ~SentTo("items")

\* get_items has been called with no identifier
C7_Witness ==
    /\ pc = "idle"
    /\ last.op = "get_items"
    /\ locals.item_ids = <<>>
    /\ wire = <<>>

\* C8 as stated: a run of main drops no table, so the Document rows committed
\* by earlier runs are still there when the run ends.
C8_RunKeepsEarlierRows ==
    pc = "done" =>
        \A r \in DOMAIN runStart.rows :
            \E q \in DOMAIN db.invoices : q.document_id = r.document_id

\* C8 amended: every run of main calls drop_tables exactly once, as its first
\* step, leaving no table before anything is fetched; when the run ends the
\* documents table holds at most the one row this run wrote.
C8_RunDropsFirst ==
    /\ pc # "idle" => runStart.drops = 1
    /\ pc = "setup" => db = NoTables
    /\ pc = "done" => BagCardinality(db.invoices) <= 1

\* a run that succeeded has ended, and a Document row committed before it
\* is gone
C8_Witness ==
    /\ pc = "done"
    /\ last.exc = "ok"
    /\ db.invoices # EmptyBag
    /\ \E r \in DOMAIN runStart.rows :
          \A q \in DOMAIN db.invoices : q.document_id # r.document_id

\* C9: check_database never changes the store, on no path through it.
C9_ReporterReadsOnly ==
    [][last'.op = "check_database" => (db' = db /\ conn' = conn)]_vars

\* check_database has failed while rendering a row
C9_Witness ==
    /\ last.op = "check_database"
    /\ last.exc = "TypeError"
    /\ db.items # EmptyBag

\* C10: in every committed state every Category row and every Line Item row
\* refers to a Document row that exists.
C10_ReferentialIntegrity ==
    \A r \in DOMAIN db.categories \cup DOMAIN db.items :
        \E doc \in DOMAIN db.invoices : doc.document_id = r.invoice_id

\* an ingestion has failed part-way and left committed child rows
C10_Witness ==
    /\ last.op = "save_invoice"
    /\ last.stage = "save_line_items"
    /\ last.exc # "ok"
    /\ db.categories # EmptyBag
    /\ db.items # EmptyBag

====
